---- MODULE Spec2Model ----
(***************************************************************************)
(* The browser-side UI controller of auto-sleuth.                          *)
(*                                                                         *)
(* Two versions of the page script exist in the repository:                *)
(*   "app"    src/frontend/app.js   (agent-backed: status check, chat      *)
(*                                   request, fuel-price dashboard)        *)
(*   "legacy" src/unnamed/part_000  (mock search behind a 1500 ms timer,   *)
(*                                   gas-price dashboard)                  *)
(* A page runs exactly one of them; Init chooses which.                    *)
(*                                                                         *)
(* Every async function writes the DOM only in its synchronous prefix and  *)
(* after its last await, so the continuation that runs when a request has  *)
(* fully settled (headers and body) is one atomic step of the single       *)
(* JavaScript thread.                                                      *)
(*                                                                         *)
(* Text is a sequence of tokens (one-character strings for user text, whole *)
(* phrases for fixed messages).  String search (String.includes) is        *)
(* decided at token granularity.  The warning-sign emoji that opens two of *)
(* the messages of app.js is written "(!) ".  Prices are integers (tenths  *)
(* of a euro).                                                             *)
(***************************************************************************)
EXTENDS Integers, Sequences, FiniteSets, TLC

\* ------------------------------------------------------------- bounds
MaxClicks == 2       \* clicks on the search button in one page session

\* ---------------------------------------------------------- JS values
Undef == [t |-> "undefined", n |-> 0, s |-> <<>>]
Null == [t |-> "null", n |-> 0, s |-> <<>>]
Num(k) == [t |-> "number", n |-> k, s |-> <<>>]
Bool(b) == [t |-> "boolean", n |-> IF b THEN 1 ELSE 0, s |-> <<>>]
Str(x) == [t |-> "string", n |-> 0, s |-> x]

\* JavaScript truthiness, as used by `!x`, `x && y`, `x || y`
Truthy(v) ==
    CASE v.t = "undefined" -> FALSE
      [] v.t = "null" -> FALSE
      [] v.t = "number" -> v.n # 0
      [] v.t = "boolean" -> v.n = 1
      [] v.t = "string" -> v.s # <<>>
      [] OTHER -> TRUE

\* `x || y`
JsOr(x, y) == IF Truthy(x) THEN x ELSE y

\* `${v}` inside a template literal
ToStringJS(v) ==
    CASE v.t = "undefined" -> <<"undefined">>
      [] v.t = "null" -> <<"null">>
      [] v.t = "number" -> <<ToString(v.n)>>
      [] v.t = "boolean" -> IF v.n = 1 THEN <<"true">> ELSE <<"false">>
      [] OTHER -> v.s

\* ------------------------------------------------------------- strings
IsWhitespace(c) == c \in {" ", "\n", "\t"}

RECURSIVE TrimStart(_)
TrimStart(x) ==
    IF x # <<>> /\ IsWhitespace(Head(x)) THEN TrimStart(Tail(x)) ELSE x

RECURSIVE TrimEnd(_)
TrimEnd(x) ==
    IF x # <<>> /\ IsWhitespace(x[Len(x)])
    THEN TrimEnd(SubSeq(x, 1, Len(x) - 1))
    ELSE x

\* String.prototype.trim
\* (a variant that forgets the trim: `searchInput.value` as typed)
NoTrim(x) == x
Trim(x) == TrimEnd(TrimStart(x))

\* String.prototype.includes, at token granularity
Includes(x, tok) == \E i \in 1..Len(x) : x[i] = tok

\* resultText.replace(/\n/g, '<br>')
ReplaceNewlines(x) == [i \in 1..Len(x) |-> IF x[i] = "\n" THEN "<br>" ELSE x[i]]

\* error.message.replace(/^Error: /, '')
StripErrorPrefix(msg) ==
    IF msg # <<>> /\ Head(msg) = "Error: " THEN Tail(msg) ELSE msg

\* response.ok
Ok(status) == status >= 200 /\ status <= 299

\* ------------------------------------------- results-content (innerHTML)
Html(kind, heading, body) == [kind |-> kind, heading |-> heading, body |-> body]

\* the results area before any script has written it
EmptyResults == Html("empty", <<>>, <<>>)

\* '<div class="loading-spinner"></div>'
LoadingSpinner == Html("loading-spinner", <<>>, <<>>)

\* '<p>No data available for this car.</p>'
NoDataHtml == Html("p", <<>>, <<"No data available for this car.">>)

\* `<p class="error">${msg}</p>`
ErrorHtml(msg) == Html("error", <<>>, msg)

\* the result of running a try block: it threw msg, or it wrote html
Threw(msg) == [threw |-> TRUE, msg |-> msg, html |-> EmptyResults]
Wrote(html) == [threw |-> FALSE, msg |-> <<>>, html |-> html]

\* ------------------------------------------------------------ messages
LimitMsg == <<"(!) Agent usage limit exceeded. Please try again later.">>
UnavailableMsg == <<"(!) Agent service is temporarily unavailable. Please try again.">>
ApiErrorMsg(status) == <<"API Error: ", ToString(status)>>
\* messages of the exceptions the JavaScript runtime raises
JsonSyntaxError == <<"Unexpected token in JSON">>
NullPropertyError == <<"Cannot read properties of null">>
NotAFunctionError(name) == <<name, " is not a function">>
\* messages a rejected fetch() may carry (browser-defined)
NetMessages == {<<"Failed to fetch">>, <<"Error: ", "Load failed">>}

\* ------------------------------------------------- chat endpoint replies
CarValues == {Undef, Str(<<>>), Str(<<"x", "\n", "y">>), Num(7)}
SourceValues == {Undef, Str(<<"s", "\n", "t">>)}
DetailValues ==
    {Undef, Str(<<>>), Str(<<"quota ", "RESOURCE_EXHAUSTED">>),
     Str(<<"code ", "429">>), Str(<<"bad gateway">>), Num(5)}

ChatBody(parse, car, source, detail) ==
    [parse |-> parse, car |-> car, source |-> source, detail |-> detail]

\* `{}`
EmptyObject == ChatBody("object", Undef, Undef, Undef)

Quota == Str(<<"quota ", "RESOURCE_EXHAUSTED">>)
UnparsableBody == ChatBody("fail", Undef, Undef, Undef)
NullBody == ChatBody("null", Undef, Undef, Undef)

\* bodies of the shape {car, source}
AnswerBodies == {ChatBody("object", c, s, Undef) : c \in CarValues, s \in SourceValues}
\* bodies of the shape {detail}
DetailOnlyBodies == {ChatBody("object", Undef, Undef, d) : d \in DetailValues}
\* an answer and a quota detail in one body
MixedBody == ChatBody("object", Str(<<"x", "\n", "y">>), Str(<<"s", "\n", "t">>), Quota)

Rejected(msg) ==
    [rejected |-> TRUE, msg |-> msg, status |-> 0, body |-> EmptyObject]
Responded(status, body) ==
    [rejected |-> FALSE, msg |-> <<>>, status |-> status, body |-> body]

ChatOutcomes ==
    {Rejected(m) : m \in NetMessages}
    \cup {Responded(200, b) : b \in {UnparsableBody, NullBody} \cup AnswerBodies}
    \cup {Responded(429, b) : b \in {UnparsableBody, NullBody, MixedBody} \cup DetailOnlyBodies}
    \cup {Responded(502, b) :
            b \in {EmptyObject, ChatBody("object", Undef, Undef, Quota),
                   ChatBody("object", Undef, Undef, Str(<<"code ", "429">>)),
                   ChatBody("object", Undef, Undef, Str(<<"bad gateway">>))}}
    \cup {Responded(500, b) :
            b \in {ChatBody("object", Undef, Undef, Quota),
                   ChatBody("object", Str(<<"x", "\n", "y">>), Str(<<"s", "\n", "t">>), Undef)}}

\* ------------------------------------------------------- displayResults
\* app.js displayResults(resultText, query)
displayResults(resultText, query) ==
    IF resultText.t # "string"
    THEN Threw(NotAFunctionError("resultText.replace"))
    ELSE Wrote(Html("results",
                    <<"Analysis for \"">> \o ToStringJS(query) \o <<"\"">>,
                    ReplaceNewlines(resultText.s)))

\* ----------------------------------------------------------- handleSearch
\* errorData.detail.includes("RESOURCE_EXHAUSTED") || errorData.detail.includes("429")
\* (a variant that looks for RESOURCE_EXHAUSTED alone)
HasResourceExhaustedOnly(detail) == Includes(detail.s, "RESOURCE_EXHAUSTED")
HasQuotaMarker(detail) ==
    Includes(detail.s, "RESOURCE_EXHAUSTED") \/ Includes(detail.s, "429")

\* the `if (!response.ok)` block: always throws
handleSearchNotOk(r) ==
    LET errorData == IF r.body.parse = "fail" THEN EmptyObject ELSE r.body
    IN  IF r.status = 502 \/ r.status = 429
        THEN IF errorData.parse = "null"
             THEN Threw(NullPropertyError)
             ELSE IF Truthy(errorData.detail)
                  THEN IF errorData.detail.t # "string"
                       THEN Threw(NotAFunctionError("errorData.detail.includes"))
                       ELSE IF HasQuotaMarker(errorData.detail)
                            THEN Threw(LimitMsg)
                            ELSE Threw(UnavailableMsg)
                  ELSE Threw(UnavailableMsg)
        ELSE Threw(ApiErrorMsg(r.status))

\* the try block of handleSearch from the point where fetch() has settled
handleSearchTry(r) ==
    IF r.rejected THEN Threw(r.msg)
    ELSE IF ~Ok(r.status) THEN handleSearchNotOk(r)
    ELSE IF r.body.parse = "fail" THEN Threw(JsonSyntaxError)
    ELSE IF r.body.parse # "null" /\ Truthy(r.body.car)
         THEN displayResults(r.body.car, r.body.source)
         ELSE Wrote(NoDataHtml)

\* the catch block of handleSearch
\* (a variant that logs the error and writes nothing over the spinner)
handleSearchCatchSilent(msg) == LoadingSpinner
handleSearchCatch(msg) == ErrorHtml(StripErrorPrefix(msg))

\* what handleSearch leaves in results-content once its request has settled
handleSearchSettled(r) ==
    LET t == handleSearchTry(r)
    IN  IF t.threw THEN handleSearchCatch(t.msg) ELSE t.html

\* ------------------------------------------------ fuel-price endpoint replies
PriceKeys == {"gasoline", "diesel", "gpl", "methane", "electric"}

\* fuelMapping, in the order Object.entries() yields it
fuelMapping ==
    << <<"gasoline", "Benzina">>, <<"diesel", "Gasolio">>,
       <<"gpl", "GPL">>, <<"methane", "Metano">> >>

\* a `prices` object, or undefined
Prices(g, d, l, m, e) ==
    [t |-> "object",
     p |-> [k \in PriceKeys |->
              CASE k = "gasoline" -> g [] k = "diesel" -> d [] k = "gpl" -> l
                [] k = "methane" -> m [] OTHER -> e]]
NoPrices == [t |-> "undefined", p |-> [k \in PriceKeys |-> Undef]]

PriceMaps ==
    {Prices(g, d, l, m, e) :
        g \in {Undef, Num(0), Num(18)}, d \in {Undef, Num(0), Num(17), Num(-1)},
        l \in {Undef, Num(7)}, m \in {Undef, Num(14)}, e \in {Undef, Num(30)}}

Location(t, city, regionName, region, countryCode) ==
    [t |-> t, city |-> city, regionName |-> regionName, region |-> region,
     countryCode |-> countryCode]
NoLocation == Location("undefined", Undef, Undef, Undef, Undef)
Locations ==
    {NoLocation,
     Location("object", Str(<<"Roma">>), Undef, Str(<<"Lazio">>), Undef),
     Location("object", Str(<<"Roma">>), Str(<<"Latium">>), Str(<<"Lazio">>), Str(<<"VA">>)),
     Location("object", Str(<<>>), Undef, Str(<<"Lazio">>), Undef)}

Regional(t, region, prices) == [t |-> t, region |-> region, prices |-> prices]
National(t, prices) == [t |-> t, prices |-> prices]
NoRegional == Regional("undefined", Undef, NoPrices)
NoNational == National("undefined", NoPrices)
PriceData(t, regional, national) == [t |-> t, regional |-> regional, national |-> national]
NoPriceData == PriceData("undefined", NoRegional, NoNational)

\* the national lists vary in the two fuels every list carries
NationalMaps == {pr \in PriceMaps : \A k \in {"gpl", "methane", "electric"} : pr.p[k] = Undef}

PriceDatas ==
    {PriceData("object", rg, na) :
        rg \in {NoRegional} \cup
               {Regional("object", Str(<<"Lazio">>), pr) : pr \in PriceMaps \cup {NoPrices}},
        na \in {NoNational} \cup {National("object", pr) : pr \in NationalMaps \cup {NoPrices}}}

FuelBody(parse, detail, location, price_data, fuel_price, gas_price) ==
    [parse |-> parse, detail |-> detail, location |-> location,
     price_data |-> price_data, fuel_price |-> fuel_price, gas_price |-> gas_price]
EmptyFuelBody == FuelBody("object", Undef, NoLocation, NoPriceData, NoPrices, NoPrices)
UnparsableFuelBody == FuelBody("fail", Undef, NoLocation, NoPriceData, NoPrices, NoPrices)
NullFuelBody == FuelBody("null", Undef, NoLocation, NoPriceData, NoPrices, NoPrices)

\* bodies carrying prices: price_data (with or without the old single list
\* beside it), or the old single list alone
PriceBodies ==
    {FuelBody("object", Undef, loc, pd, fp, fp) :
        loc \in Locations, pd \in PriceDatas,
        fp \in {NoPrices, Prices(Num(18), Num(0), Undef, Undef, Undef)}}
    \cup {FuelBody("object", Undef, loc, NoPriceData, fp, fp) :
            loc \in Locations, fp \in PriceMaps \cup {NoPrices}}

Denied == Str(<<"Location access denied">>)
ExampleLocation == Location("object", Str(<<"Roma">>), Undef, Str(<<"Lazio">>), Undef)
ExamplePrices == Prices(Num(18), Num(0), Undef, Undef, Undef)
ExamplePriceData ==
    PriceData("object", Regional("object", Str(<<"Lazio">>), ExamplePrices), NoNational)

\* a body with a location and prices in both formats, and `detail` beside them
FullBody(detail) ==
    FuelBody("object", detail, ExampleLocation, ExamplePriceData, ExamplePrices, ExamplePrices)
\* a body of the shape {detail}
DetailBody(detail) ==
    FuelBody("object", detail, NoLocation, NoPriceData, NoPrices, NoPrices)

FuelRejected(msg) ==
    [rejected |-> TRUE, msg |-> msg, status |-> 0, body |-> EmptyFuelBody]
FuelResponded(status, body) ==
    [rejected |-> FALSE, msg |-> <<>>, status |-> status, body |-> body]
NoFuelOutcome == [rejected |-> FALSE, msg |-> <<>>, status |-> 0, body |-> EmptyFuelBody]

\* the replies the page-level specification draws from
FuelOutcomesCore ==
    {FuelRejected(<<"Failed to fetch">>)}
    \cup {FuelResponded(403, b) : b \in {UnparsableFuelBody, DetailBody(Denied), FullBody(Denied)}}
    \cup {FuelResponded(500, b) : b \in {FullBody(Denied)}}
    \cup {FuelResponded(200, b) : b \in {NullFuelBody, FullBody(Undef)}}

\* the replies the dashboard specification draws from
FuelOutcomes ==
    {FuelRejected(m) : m \in NetMessages}
    \cup {FuelResponded(st, b) :
            st \in {403, 404, 500},
            b \in {UnparsableFuelBody, NullFuelBody}
                  \cup {DetailBody(d) : d \in {Undef, Denied, Str(<<>>), Num(5)}}
                  \cup {FullBody(d) : d \in {Undef, Denied}}}
    \cup {FuelResponded(200, b) :
            b \in {UnparsableFuelBody, NullFuelBody, FullBody(Denied)} \cup PriceBodies}

\* ----------------------------------------- user-location and gas-prices
Column(title, rows) == [title |-> title, rows |-> rows]
GasHtml(kind, text, columns) == [kind |-> kind, text |-> text, columns |-> columns]

\* the price display as the page's HTML ships it
InitialGasPrices == GasHtml("initial", <<>>, <<>>)
\* '<div class="mini-spinner"></div>'
MiniSpinner == GasHtml("mini-spinner", <<>>, <<>>)
\* `<p class="error-message">${errorData.detail}</p>`
ErrorMessageHtml(detail) == GasHtml("error-message", ToStringJS(detail), <<>>)
\* '<p>Could not load prices</p>'
CouldNotLoad == GasHtml("p", <<"Could not load prices">>, <<>>)
\* '<p>Prezzi non disponibili.</p>'
PrezziNonDisponibili == GasHtml("p", <<"Prezzi non disponibili.">>, <<>>)
\* '<p>Prices unavailable</p>'
PricesUnavailable == GasHtml("p", <<"Prices unavailable">>, <<>>)
\* `<div class="prices-container" ...>${contentHtml}</div>`
PricesContainer(columns) == GasHtml("prices-container", <<>>, columns)
\* '<div class="price-label">Prezzo Medio</div>' followed by the fuel items
PriceLabelList(rows) == GasHtml("price-label", <<>>, <<Column(<<"Prezzo Medio">>, rows)>>)

InfoLoading == <<"Info loading...">>
LocationUnavailable == <<"Location Unavailable">>
UnknownLocation == <<"Unknown Location">>

\* `v > 0`
GreaterThanZero(v) ==
    CASE v.t = "number" -> v.n > 0
      [] v.t = "boolean" -> v.n = 1
      [] OTHER -> FALSE

\* `prices[key] && prices[key] > 0`
\* (a variant that shows every numeric price, zero and negative included)
PriceShownAnyNumber(v) == v.t = "number"
PriceShown(v) == Truthy(v) /\ GreaterThanZero(v)

\* the fuel-item divs the `for (const [key, label] of ...)` loop appends
FuelItems(prices) ==
    LET shown == SelectSeq(<<1, 2, 3, 4>>,
                           LAMBDA i : PriceShown(prices.p[fuelMapping[i][1]]))
    IN  [j \in 1..Len(shown) |->
            [label |-> fuelMapping[shown[j]][2],
             price |-> ToStringJS(prices.p[fuelMapping[shown[j]][1]])]]

\* generatePriceList(prices, title): the columns it contributes to contentHtml
generatePriceList(prices, title) ==
    IF prices.t = "undefined"
    THEN [threw |-> TRUE, columns |-> <<>>]
    ELSE [threw |-> FALSE,
          columns |-> IF FuelItems(prices) # <<>>
                      THEN <<Column(title, FuelItems(prices))>>
                      ELSE <<>>]

\* the location text of updateDashboardUI
LocationText(location) ==
    IF location.t = "object" /\ Truthy(location.city)
    THEN LET region == JsOr(JsOr(location.regionName, location.region), Str(<<>>))
             country == JsOr(location.countryCode, Str(<<"IT">>))
         IN  ToStringJS(location.city) \o <<", ">> \o ToStringJS(region)
                 \o <<" (">> \o ToStringJS(country) \o <<")">>
    ELSE UnknownLocation

Dash(threw, loc, gas) == [threw |-> threw, userLocation |-> loc, gasPrices |-> gas]

\* updateDashboardUI(data), data a parsed body; gas0 is gas-prices before the call
updateDashboardUI(data, loc0, gas0) ==
    IF data.parse = "null" THEN Dash(TRUE, loc0, gas0)
    ELSE
    LET loc == LocationText(data.location)
        rg == IF data.price_data.regional.t = "object"
              THEN generatePriceList(data.price_data.regional.prices,
                       <<"Media ">> \o ToStringJS(data.price_data.regional.region))
              ELSE [threw |-> FALSE, columns |-> <<>>]
        na == IF data.price_data.national.t = "object"
              THEN generatePriceList(data.price_data.national.prices, <<"Media Italia">>)
              ELSE [threw |-> FALSE, columns |-> <<>>]
    IN  IF data.price_data.t = "object"
        THEN IF rg.threw \/ na.threw
             THEN Dash(TRUE, loc, gas0)
             ELSE IF rg.columns \o na.columns = <<>>
                  THEN Dash(FALSE, loc, PrezziNonDisponibili)
                  ELSE Dash(FALSE, loc, PricesContainer(rg.columns \o na.columns))
        ELSE IF data.fuel_price.t = "object"
             THEN Dash(FALSE, loc, PriceLabelList(FuelItems(data.fuel_price)))
             ELSE Dash(FALSE, loc, PricesUnavailable)

\* the catch block of fetchFuelPrice (and of fetchGasPrice)
fetchFuelPriceCatch == Dash(FALSE, LocationUnavailable, CouldNotLoad)

\* the `response.status === 403` block
\* (a variant that treats 403 like any other failure)
ForbiddenGeneric(errorData) == Dash(FALSE, LocationUnavailable, CouldNotLoad)
Forbidden(errorData) ==
    IF errorData.parse = "object"
    THEN Dash(FALSE, LocationUnavailable, ErrorMessageHtml(errorData.detail))
    ELSE Dash(TRUE, LocationUnavailable, CouldNotLoad)

\* what fetchFuelPrice leaves in the dashboard once its request has settled
fetchFuelPriceSettled(r, loc0, gas0) ==
    LET t == IF r.rejected THEN Dash(TRUE, loc0, gas0)
             ELSE IF r.status = 403 THEN Forbidden(r.body)
             ELSE IF ~Ok(r.status) THEN Dash(TRUE, loc0, gas0)
             ELSE IF r.body.parse = "fail" THEN Dash(TRUE, loc0, gas0)
             ELSE updateDashboardUI(r.body, loc0, gas0)
    IN  IF t.threw THEN fetchFuelPriceCatch ELSE t

\* part_000 fetchGasPrice: the inline update of its try block
updateGasPrice(data, loc0, gas0) ==
    IF data.parse = "null" THEN Dash(TRUE, loc0, gas0)
    ELSE IF data.gas_price.t = "object"
         THEN Dash(FALSE, LocationText(data.location),
                   PriceLabelList(FuelItems(data.gas_price)))
         ELSE Dash(FALSE, LocationText(data.location), PricesUnavailable)

\* what fetchGasPrice leaves in the dashboard once its request has settled
fetchGasPriceSettled(r, loc0, gas0) ==
    LET t == IF r.rejected THEN Dash(TRUE, loc0, gas0)
             ELSE IF r.status = 403 THEN Forbidden(r.body)
             ELSE IF ~Ok(r.status) THEN Dash(TRUE, loc0, gas0)
             ELSE IF r.body.parse = "fail" THEN Dash(TRUE, loc0, gas0)
             ELSE updateGasPrice(r.body, loc0, gas0)
    IN  IF t.threw THEN fetchFuelPriceCatch ELSE t

\* ------------------------------------------------ agent-status replies
StatusBody(parse, available) == [parse |-> parse, available |-> available]
StatusRejected(msg) ==
    [rejected |-> TRUE, msg |-> msg, status |-> 0, body |-> StatusBody("object", Undef)]
StatusResponded(status, body) ==
    [rejected |-> FALSE, msg |-> <<>>, status |-> status, body |-> body]

StatusOutcomes ==
    {StatusRejected(<<"Failed to fetch">>),
     StatusResponded(200, StatusBody("object", Bool(TRUE))),
     StatusResponded(200, StatusBody("object", Bool(FALSE))),
     StatusResponded(200, StatusBody("fail", Undef)),
     StatusResponded(200, StatusBody("null", Undef)),
     \* an error reply such as {"detail": "Internal Server Error"}
     StatusResponded(500, StatusBody("object", Undef))}

\* ------------------------------------------------------ search controls
Button(disabled, textContent, title, opacity, cursor) ==
    [disabled |-> disabled, textContent |-> textContent, title |-> title,
     opacity |-> opacity, cursor |-> cursor]
Input(disabled, placeholder, cursor, value) ==
    [disabled |-> disabled, placeholder |-> placeholder, cursor |-> cursor,
     value |-> value]

\* the controls as the page's HTML ships them
InitialButton == Button(FALSE, "(html)", "", "", "")
InitialInput == Input(FALSE, "(html)", "", <<>>)

\* what the user can type into the search box: nothing, blanks only, and two
\* queries, one of them with blanks around it and one with a blank inside
Texts ==
    {<<>>, <<" ">>, <<" ", " ">>, <<"a">>, <<" ", "a", " ">>, <<"a", " ", "b">>}

\* ---------------------------------------------------------------- state
VARIABLES
    version,          \* which script the page loads: "app" or "legacy"
    initPc,           \* position of the DOMContentLoaded handler
    searchBtn,        \* #search-btn
    searchInput,      \* #car-search
    listening,        \* the click listener is registered on #search-btn
    alerts,           \* alert() dialogs shown so far
    chatReqs,         \* searches started, oldest first: the query sent, settled or not
    settledSince,     \* a search settled after the newest one was started
    resultsHidden,    \* #results-section carries class results-hidden
    resultsContent,   \* #results-content innerHTML
    fuelPending,      \* fuel-price requests in flight
    fuelResp,         \* fetchFuelPrice: the settled `response` / `data`
    dashboardHidden,  \* #dashboard-section carries class dashboard-hidden
    userLocation,     \* #user-location textContent
    gasPrices         \* #gas-prices innerHTML

searchVars == <<searchBtn, searchInput, listening>>
resultVars == <<alerts, chatReqs, settledSince, resultsHidden, resultsContent>>
dashVars == <<fuelPending, fuelResp, dashboardHidden, userLocation, gasPrices>>
vars == <<version, initPc, searchVars, resultVars, dashVars>>

Init ==
    /\ version \in {"app", "legacy"}
    /\ initPc = "unloaded"
    /\ searchBtn = InitialButton
    /\ searchInput = InitialInput
    /\ listening = FALSE
    /\ alerts = 0
    /\ chatReqs = <<>>
    /\ settledSince = FALSE
    /\ resultsHidden = TRUE
    /\ resultsContent = EmptyResults
    /\ fuelPending = 0
    /\ fuelResp = NoFuelOutcome
    /\ dashboardHidden = TRUE
    /\ userLocation = <<>>
    /\ gasPrices = InitialGasPrices

\* --------------------------------------------------------------- page load
\* fetchFuelPrice up to its `await fetch(...)`
\* (a variant in which the load handler starts the fetch twice)
fetchFuelPriceStartTwice ==
    /\ dashboardHidden' = FALSE
    /\ userLocation' = InfoLoading
    /\ gasPrices' = MiniSpinner
    /\ fuelPending' = fuelPending + 2
    /\ UNCHANGED fuelResp
fetchFuelPriceStart ==
    /\ dashboardHidden' = FALSE
    /\ userLocation' = InfoLoading
    /\ gasPrices' = MiniSpinner
    /\ fuelPending' = fuelPending + 1
    /\ UNCHANGED fuelResp

\* part_000 fetchGasPrice up to its `await fetch(...)`
fetchGasPriceStart ==
    /\ dashboardHidden' = FALSE
    /\ fuelPending' = fuelPending + 1
    /\ UNCHANGED <<fuelResp, userLocation, gasPrices>>

\* DOMContentLoaded, app.js: initApp up to the fetch() inside checkAgentStatus
PageLoad ==
    /\ version = "app"
    /\ initPc = "unloaded"
    /\ initPc' = "awaitStatus"
    /\ UNCHANGED <<version, searchVars, resultVars, dashVars>>

\* `!data.available`
\* (a variant with the test inverted: `data.available`)
AgentAvailableInverted(data) == Truthy(data.available)
AgentUnavailable(data) == ~Truthy(data.available)

\* the try block of checkAgentStatus once the response has settled: does it
\* reach the body of `if (!data.available)`
checkAgentStatusDisables(r) ==
    /\ ~r.rejected
    /\ r.body.parse = "object"
    /\ AgentUnavailable(r.body)

\* the status request settles: the rest of checkAgentStatus, then the rest of
\* initApp (listener, fetchFuelPrice up to its await)
StatusSettle(r) ==
    /\ version = "app"
    /\ initPc = "awaitStatus"
    /\ IF checkAgentStatusDisables(r)
       THEN /\ searchBtn' = Button(TRUE, "Agent Unavailable", "Agent API Key is missing",
                                   "0.6", "not-allowed")
            /\ searchInput' = Input(TRUE, "Agent is offline (API Key missing)",
                                    "not-allowed", searchInput.value)
       ELSE UNCHANGED <<searchBtn, searchInput>>
    /\ listening' = TRUE
    /\ fetchFuelPriceStart
    /\ initPc' = "done"
    /\ UNCHANGED <<version, resultVars>>

\* DOMContentLoaded, part_000: fetchGasPrice up to its await, then the listener
PageLoadLegacy ==
    /\ version = "legacy"
    /\ initPc = "unloaded"
    /\ fetchGasPriceStart
    /\ listening' = TRUE
    /\ initPc' = "done"
    /\ UNCHANGED <<version, searchBtn, searchInput, resultVars>>

\* ------------------------------------------------------------- the user
\* the user edits the search box (a disabled input cannot be edited)
TypeQuery(x) ==
    /\ ~searchInput.disabled
    /\ x # searchInput.value
    /\ searchInput' = [searchInput EXCEPT !.value = x]
    /\ UNCHANGED <<version, initPc, searchBtn, listening, resultVars, dashVars>>

\* a click reaches a listener only when one is registered and the button is enabled
ClickDelivered == listening /\ ~searchBtn.disabled

\* the validation and the loading state shared by both click handlers
StartSearch ==
    LET query == Trim(searchInput.value)
    IN  IF query = <<>>
        THEN /\ alerts + Len(chatReqs) < MaxClicks
             /\ alerts' = alerts + 1
             /\ UNCHANGED <<chatReqs, settledSince, resultsHidden, resultsContent>>
        ELSE /\ alerts + Len(chatReqs) < MaxClicks
             /\ resultsHidden' = FALSE
             /\ resultsContent' = LoadingSpinner
             /\ chatReqs' = Append(chatReqs, [query |-> query, settled |-> FALSE])
             /\ settledSince' = FALSE
             /\ UNCHANGED alerts

\* click, app.js: handleSearch up to its `await fetch(...)`
HandleSearch ==
    /\ version = "app"
    /\ ClickDelivered
    /\ StartSearch
    /\ UNCHANGED <<version, initPc, searchVars, dashVars>>

\* a chat request settles: the rest of handleSearch
ChatSettle(i, r) ==
    /\ version = "app"
    /\ i \in 1..Len(chatReqs)
    /\ ~chatReqs[i].settled
    /\ chatReqs' = [chatReqs EXCEPT ![i].settled = TRUE]
    /\ settledSince' = TRUE
    /\ resultsContent' = handleSearchSettled(r)
    /\ UNCHANGED <<version, initPc, searchVars, alerts, resultsHidden, dashVars>>

\* part_000 displayResults(mockData), mockData.car being the query
displayMockResults(query) ==
    Html("results", <<"Results for \"">> \o query \o <<"\"">>,
         <<"Estimated Cost: ", "$12,500 - $15,000", "Maintenance Score: ", "High",
           "Reliability: ", "Average">>)

\* click, part_000: the handler up to its `await new Promise(... setTimeout ...)`
HandleSearchLegacy ==
    /\ version = "legacy"
    /\ ClickDelivered
    /\ StartSearch
    /\ UNCHANGED <<version, initPc, searchVars, dashVars>>

\* the 1500 ms timer of a mock search fires: the rest of the handler
TimerFire(i) ==
    /\ version = "legacy"
    /\ i \in 1..Len(chatReqs)
    /\ ~chatReqs[i].settled
    /\ chatReqs' = [chatReqs EXCEPT ![i].settled = TRUE]
    /\ settledSince' = TRUE
    /\ resultsContent' = displayMockResults(chatReqs[i].query)
    /\ UNCHANGED <<version, initPc, searchVars, alerts, resultsHidden, dashVars>>

\* ------------------------------------------------------------ dashboard
\* the fuel-price request settles: the rest of fetchFuelPrice
FuelSettle(r) ==
    /\ version = "app"
    /\ fuelPending > 0
    /\ fuelPending' = fuelPending - 1
    /\ fuelResp' = r
    /\ userLocation' = fetchFuelPriceSettled(r, userLocation, gasPrices).userLocation
    /\ gasPrices' = fetchFuelPriceSettled(r, userLocation, gasPrices).gasPrices
    /\ UNCHANGED <<version, initPc, searchVars, resultVars, dashboardHidden>>

\* the gas-price request settles: the rest of part_000 fetchGasPrice
GasSettle(r) ==
    /\ version = "legacy"
    /\ fuelPending > 0
    /\ fuelPending' = fuelPending - 1
    /\ fuelResp' = r
    /\ userLocation' = fetchGasPriceSettled(r, userLocation, gasPrices).userLocation
    /\ gasPrices' = fetchGasPriceSettled(r, userLocation, gasPrices).gasPrices
    /\ UNCHANGED <<version, initPc, searchVars, resultVars, dashboardHidden>>

\* the searches in flight
Pending == {i \in 1..Len(chatReqs) : ~chatReqs[i].settled}

\* ------------------------------------------------------- specifications
Next ==
    \/ PageLoad
    \/ \E r \in StatusOutcomes : StatusSettle(r)
    \/ PageLoadLegacy
    \/ \E x \in Texts : TypeQuery(x)
    \/ HandleSearch
    \/ \E i \in Pending : \E r \in ChatOutcomes : ChatSettle(i, r)
    \/ HandleSearchLegacy
    \/ \E i \in Pending : TimerFire(i)
    \/ fuelPending > 0 /\ \E r \in FuelOutcomesCore : FuelSettle(r)
    \/ fuelPending > 0 /\ \E r \in FuelOutcomesCore : GasSettle(r)

Spec == Init /\ [][Next]_vars

\* The dashboard on its own: the page right after its load handler has started
\* the fuel-price request (in app.js, after a status reply {available: true}),
\* and every reply of FuelOutcomes.
InitDash ==
    /\ version \in {"app", "legacy"}
    /\ initPc = "done"
    /\ searchBtn = InitialButton
    /\ searchInput = InitialInput
    /\ listening = TRUE
    /\ alerts = 0
    /\ chatReqs = <<>>
    /\ settledSince = FALSE
    /\ resultsHidden = TRUE
    /\ resultsContent = EmptyResults
    /\ fuelPending = 1
    /\ fuelResp = NoFuelOutcome
    /\ dashboardHidden = FALSE
    /\ userLocation = (IF version = "app" THEN InfoLoading ELSE <<>>)
    /\ gasPrices = (IF version = "app" THEN MiniSpinner ELSE InitialGasPrices)

NextDash ==
    \/ fuelPending > 0 /\ \E r \in FuelOutcomes : FuelSettle(r)
    \/ fuelPending > 0 /\ \E r \in FuelOutcomes : GasSettle(r)

SpecDash == InitDash /\ [][NextDash]_vars

\* ================================================================ claims
\* x occurs in y as a contiguous run of tokens
Infix(x, y) ==
    \E i \in 0..(Len(y) - Len(x)) : SubSeq(y, i + 1, i + Len(x)) = x

IsBlank(x) == \A i \in 1..Len(x) : IsWhitespace(x[i])
FuelSettled == fuelResp # NoFuelOutcome
FuelFailed == FuelSettled /\ (fuelResp.rejected \/ ~Ok(fuelResp.status))

\* C1: a click with an empty or whitespace-only search box, in either version
\* and after any earlier searches, shows the alert and does nothing else: no
\* request is recorded, the results section and its content are untouched.
C1_BlankQuerySendsNothing ==
    [][(HandleSearch \/ HandleSearchLegacy) /\ IsBlank(searchInput.value)
        => /\ alerts' = alerts + 1
           /\ UNCHANGED <<version, initPc, searchVars, chatReqs, settledSince,
                          resultsHidden, resultsContent, dashVars>>]_vars

\* C1 witness: an alert has been shown for a whitespace-only box after an
\* earlier search had been started
C1_Witness ==
    /\ alerts > 0
    /\ searchInput.value # <<>> /\ IsBlank(searchInput.value)
    /\ chatReqs # <<>>

\* a successful reply with a non-empty `car` string and a `source` string
IsAnswer(r) ==
    /\ ~r.rejected /\ Ok(r.status) /\ r.body.parse = "object"
    /\ r.body.car.t = "string" /\ r.body.car.s # <<>>
    /\ r.body.source.t = "string"

\* C2 (as claimed): when a search is answered with `car` and `source`, the
\* heading written to results-content contains the query the user submitted
\* and the content shows `source` with each newline turned into <br>.
C2_HeadingHasQuerySourceHasBreaks ==
    [][\A i \in Pending : \A r \in ChatOutcomes :
          ChatSettle(i, r) /\ IsAnswer(r)
          => /\ resultsContent'.kind = "results"
             /\ Infix(chatReqs[i].query, resultsContent'.heading)
             /\ Infix(ReplaceNewlines(r.body.source.s), resultsContent'.body)]_vars

\* the reply is an HTTP failure
IsHttpFailure(r) == ~r.rejected /\ ~Ok(r.status)
\* the quota marker named by the claim
HasResourceExhausted(r) ==
    /\ r.body.parse = "object"
    /\ r.body.detail.t = "string"
    /\ Includes(r.body.detail.s, "RESOURCE_EXHAUSTED")
\* either marker the code looks for
HasEitherMarker(r) ==
    /\ r.body.parse = "object"
    /\ r.body.detail.t = "string"
    /\ (Includes(r.body.detail.s, "RESOURCE_EXHAUSTED") \/ Includes(r.body.detail.s, "429"))
\* no usable detail: unparsable body, or an object whose detail is absent,
\* empty, or a string without either marker
HasNoMarker(r) ==
    \/ r.body.parse = "fail"
    \/ /\ r.body.parse = "object"
       /\ r.body.detail.t \in {"undefined", "string"}
       /\ ~Includes(r.body.detail.s, "RESOURCE_EXHAUSTED")
       /\ ~Includes(r.body.detail.s, "429")

ReportsUnavailable(r) ==
    ~r.rejected /\ r.body.parse = "object" /\ r.body.available = Bool(FALSE)

\* C4: when the status check receives {available: false}, button and input
\* are disabled with the explanatory title and placeholder, no search has
\* been sent by then, and from a disabled button on, every step leaves both
\* controls as they are and sends no chat request.
C4_UnavailableDisablesForGood ==
    [][/\ \A r \in StatusOutcomes :
            StatusSettle(r) /\ ReportsUnavailable(r)
            => /\ searchBtn'.disabled /\ searchInput'.disabled
               /\ searchBtn'.title = "Agent API Key is missing"
               /\ searchInput'.placeholder = "Agent is offline (API Key missing)"
               /\ chatReqs' = <<>>
       /\ searchBtn.disabled
            => UNCHANGED <<searchBtn, searchInput, chatReqs>>]_vars

\* C4 witness: a later state of a page whose search controls were disabled
C4_Witness ==
    /\ searchBtn.disabled /\ searchInput.disabled
    /\ FuelSettled
    /\ chatReqs = <<>>

\* C5 (as claimed): a failed status request leaves the controls as they were,
\* and the controls get disabled only by a reply reporting available: false.
C5_DisabledOnlyWhenReported ==
    [][\A r \in StatusOutcomes :
          StatusSettle(r)
          => /\ r.rejected \/ r.body.parse = "fail"
                  => UNCHANGED <<searchBtn, searchInput>>
             /\ searchBtn'.disabled \/ searchInput'.disabled
                  => ReportsUnavailable(r)]_vars

\* C6 (as claimed): no DOM node ever has two in-flight operations that will
\* write it: at most one pending search, at most one pending fuel request.
C6_OneWriterPerNode == Cardinality(Pending) <= 1 /\ fuelPending <= 1

\* C6 (amended): user-location and gas-prices have at most one in-flight
\* writer, and it exists only once the load handler has started it;
\* results-content has one pending writer per search started and not settled.
C6_DashboardOneWriter ==
    /\ fuelPending <= 1
    /\ fuelPending = 1 => initPc = "done" /\ ~FuelSettled

\* C6 witness: the fuel request and two searches are in flight together
C6_Witness == fuelPending = 1 /\ Cardinality(Pending) = 2

\* C7 (as claimed): once the load handler has run, the fuel request is sent
\* and the click listener is active, whatever the state of the status check.
C7_LoadIsIndependent == initPc # "unloaded" => listening /\ ~dashboardHidden

\* ---- C8
KnownFuels == {"gasoline", "diesel", "gpl", "methane"}
FuelLabel(k) ==
    CASE k = "gasoline" -> "Benzina" [] k = "diesel" -> "Gasolio"
      [] k = "gpl" -> "GPL" [] OTHER -> "Metano"
\* the rows the claim asks for: known fuels whose price is present and above zero
ExpectedRows(prices) ==
    {[label |-> FuelLabel(k), price |-> <<ToString(prices.p[k].n)>>] :
        k \in {f \in KnownFuels : prices.p[f].t = "number" /\ prices.p[f].n > 0}}
RowsOf(column) == {column.rows[i] : i \in 1..Len(column.rows)}
HasExactlyRows(column, prices) ==
    /\ RowsOf(column) = ExpectedRows(prices)
    /\ Len(column.rows) = Cardinality(ExpectedRows(prices))
\* the columns the claim asks for, regional first
ExpectedColumnCount(pd) ==
    (IF pd.regional.t = "object" /\ ExpectedRows(pd.regional.prices) # {} THEN 1 ELSE 0)
    + (IF pd.national.t = "object" /\ ExpectedRows(pd.national.prices) # {} THEN 1 ELSE 0)
\* a successful reply whose price lists, where given, are objects
WellFormedPrices(r) ==
    /\ ~r.rejected /\ Ok(r.status) /\ r.body.parse = "object"
    /\ r.body.price_data.t = "object"
         => /\ r.body.price_data.regional.t = "object"
                 => r.body.price_data.regional.prices.t = "object"
            /\ r.body.price_data.national.t = "object"
                 => r.body.price_data.national.prices.t = "object"

C9_FuelFailures ==
    FuelFailed
    => /\ userLocation = <<"Location Unavailable">>
       /\ gasPrices.columns = <<>>
       /\ ~fuelResp.rejected /\ fuelResp.status = 403 /\ fuelResp.body.parse = "object"
             /\ fuelResp.body.detail.t = "string"
            => gasPrices.kind = "error-message" /\ gasPrices.text = fuelResp.body.detail.s
       /\ fuelResp.rejected \/ fuelResp.status # 403
            => gasPrices.kind = "p" /\ gasPrices.text = <<"Could not load prices">>

\* C9 witness: a 403 whose body carries a detail, a location and prices has settled
C9_Witness ==
    /\ FuelFailed
    /\ fuelResp.status = 403
    /\ fuelResp.body.detail.t = "string"
    /\ fuelResp.body.location.t = "object"
    /\ fuelResp.body.price_data.t = "object"

\* C10: a spinner in results-content means the newest search is still pending
\* (so once a search has settled and none newer is pending, the spinner is
\* gone, whatever the reply); while the newest search is pending and nothing
\* has settled since it started, the spinner is on display; in app.js the
\* dashboard shows its spinner and "Info loading..." exactly while its one
\* request is in flight.
C10_SpinnerWhilePending ==
    /\ \A i \in 1..Len(chatReqs) :
          chatReqs[i].settled /\ (\A j \in Pending : j < i)
          => resultsContent.kind # "loading-spinner"
    /\ chatReqs # <<>> /\ Len(chatReqs) \in Pending /\ ~settledSince
          => resultsContent = LoadingSpinner
    /\ version = "app" /\ FuelSettled /\ fuelPending = 0
          => gasPrices.kind # "mini-spinner" /\ userLocation # InfoLoading
    /\ version = "app" /\ fuelPending > 0 /\ ~FuelSettled
          => gasPrices = MiniSpinner /\ userLocation = InfoLoading

\* C10 witness: the only search settled with an exception raised while
\* rendering its body, and the fuel request settled on a body that makes
\* updateDashboardUI raise; neither widget shows a spinner
C10_Witness ==
    /\ version = "app"
    /\ Len(chatReqs) = 1 /\ Pending = {}
    /\ resultsContent = ErrorHtml(NotAFunctionError("resultText.replace"))
    /\ FuelSettled /\ fuelPending = 0
    /\ fuelResp.status = 200 /\ fuelResp.body.parse = "null"
    /\ gasPrices = CouldNotLoad
====
